---- MODULE Spec2Model ----
(***************************************************************************)
(* The rendering projection engine (src/ui/render.ts) and the import       *)
(* worker entry point (src/data-import/web-worker/import-entry.ts) of      *)
(* obsidian-dataview, as state machines.                                   *)
(*                                                                         *)
(* A render is a stack of suspended async calls (renderValue, renderList,  *)
(* renderTable) plus the set of leaf markdown renders the external         *)
(* renderer has not finished yet; everything a call appends to the DOM is  *)
(* recorded, in order, in `log`.  A worker is a queue of job messages and  *)
(* the messages it has posted back.                                        *)
(***************************************************************************)
EXTENDS Integers, Sequences, FiniteSets, TLC

VARIABLES
    input,      \* the top-level call: [entry, root, expand, ctx, max]
    stack,      \* the chain of awaiting calls, innermost last
    log,        \* what has been appended to the DOM, and the calls made, in order
    pending,    \* leaf markdown renders handed to the external renderer, not yet back
    sub,        \* the transient wrapper of the leaf render that resumed last
    status,     \* "running" | "resolved" | "rejected" : the top-level promise
    nextEl,     \* the next fresh DOM element id
    queue,      \* per worker: the job messages not handled yet
    posted,     \* result messages posted by the workers, in posting order
    uncaught,   \* jobs whose handler let an error escape
    jobs,       \* the jobs submitted so far, by job id
    index       \* the orchestrator's results, correlated by path

vars == <<input, stack, log, pending, sub, status, nextEl,
          queue, posted, uncaught, jobs, index>>

renderVars == <<input, stack, log, pending, sub, status, nextEl>>
workerVars == <<queue, posted, uncaught, jobs, index>>

\* ------------------------------------------------------------------ bounds

\* settings.maxRecursiveRenderDepth ranges over 0..MaxDepth
MaxDepth == 2
\* the deepest chain of nested arrays among the rendered values
MaxNest == 4
\* the longest a leaf markdown render stays suspended, in ticks
MaxWait == 2
\* jobs submitted to the workers in one run
MaxJobs == 3

\* A cap on the call chain, above anything the depth guard allows
\* (renderList/renderTable + depths 0..max+1 + slack).
StackCap == MaxDepth + 5

\* ------------------------------------------------------------------ values

\* Literal values live in a heap so that arrays and objects can contain
\* themselves.  Node ids: 0 a string, 1..MaxNest a chain of nested arrays
\* (node d is an array nested to depth d around the string), 10.. the rest.
Leaf(kind, text) ==
    [kind |-> kind, text |-> text, ctor |-> "", keys |-> <<>>, kids |-> <<>>]
Arr(kids) ==
    [kind |-> "array", text |-> "", ctor |-> "Array", keys |-> <<>>, kids |-> kids]
Obj(ctor, keys, kids) ==
    [kind |-> "object", text |-> "", ctor |-> ctor, keys |-> keys, kids |-> kids]

NestNodes == 1..MaxNest
OtherNodes == {10, 11, 12, 13, 14, 15, 16, 17, 18,
               20, 21, 22, 23, 24, 25, 26, 27,
               30, 31, 32, 33, 34, 35, 36}
Nodes == {0} \cup NestNodes \cup OtherNodes

Node(n) ==
    CASE n = 0 -> Leaf("string", "hello")
      [] n \in NestNodes -> Arr(<<n - 1>>)
      [] n = 10 -> Leaf("null", "")
      [] n = 11 -> Leaf("date", "2021-03-04")
      [] n = 12 -> Leaf("duration", "2 days")
      [] n = 13 -> Leaf("number", "42")
      [] n = 14 -> Leaf("boolean", "true")
      [] n = 15 -> Leaf("link", "[[Note A|see this]]")
      [] n = 16 -> Leaf("html", "<b>")
      [] n = 17 -> Leaf("function", "")
      [] n = 18 -> Leaf("other", "1n")
      [] n = 20 -> Arr(<<>>)
      [] n = 21 -> Arr(<<0, 13, 15>>)
      [] n = 22 -> Arr(<<21, 20, 11>>)
      [] n = 23 -> Arr(<<23, 0>>)                       \* contains itself
      [] n = 24 -> [Arr(<<12, 30>>) EXCEPT !.kind = "dataarray", !.ctor = "DataArrayImpl"]
      [] n = 25 -> Arr(<<21, 20, 1>>)                   \* rows of a table
      [] n = 26 -> Arr(<<33>>)
      [] n = 27 -> Arr(<<22, 31>>)
      [] n = 30 -> Obj("Object", <<>>, <<>>)
      [] n = 31 -> Obj("Object", <<"a", "b">>, <<0, 21>>)
      [] n = 32 -> Obj("Foo", <<"x">>, <<0>>)           \* a class instance
      [] n = 33 -> Obj("Object", <<"self", "v">>, <<33, 13>>)  \* contains itself
      [] n = 34 -> Obj("Foo", <<"self">>, <<34>>)       \* class instance, cyclic
      [] n = 35 -> Obj("", <<"k">>, <<14>>)             \* no constructor name
      [] n = 36 -> Obj("Object", <<"f", "e", "l", "n">>, <<32, 30, 20, 10>>)

\* settings.renderNullAs
RenderNullAs == "\\-"

\* ------------------------------------------------------------------ DOM of a leaf render

\* A DOM node of the transient wrapper: an element or a text node.
El(tag, kids) == [tag |-> tag, txt |-> "", kids |-> kids]
Txt(t) == [tag |-> "#text", txt |-> t, kids |-> <<>>]

\* What MarkdownRenderer.renderMarkdown may leave in the wrapper (its childNodes).
RendererOutputs ==
    { <<>>,
      <<El("p", <<Txt("a")>>)>>,
      <<El("p", <<Txt("a"), El("em", <<Txt("b")>>), Txt("c")>>)>>,
      <<Txt("x"), El("p", <<Txt("a"), Txt("b")>>)>>,
      <<El("p", <<Txt("a")>>), El("p", <<Txt("b")>>)>>,
      <<El("ul", <<El("li", <<Txt("a")>>)>>)>>,
      <<El("h1", <<Txt("a")>>), El("blockquote", <<El("p", <<Txt("b")>>)>>)>>,
      <<El("blockquote", <<El("p", <<Txt("q"), Txt("r")>>)>>)>> }

\* subcontainer.children.length: element children only
RECURSIVE ElementCount(_)
ElementCount(nodes) ==
    IF nodes = <<>> THEN 0
    ELSE (IF Head(nodes).tag = "#text" THEN 0 ELSE 1) + ElementCount(Tail(nodes))

\* subcontainer.querySelector("p"): is there a p among the descendants
RECURSIVE HasP(_)
HasP(nodes) ==
    \E i \in 1..Len(nodes) : nodes[i].tag = "p" \/ HasP(nodes[i].kids)

\* the child nodes of the first p in document order
RECURSIVE FirstPKids(_)
FirstPKids(nodes) ==
    IF nodes = <<>> THEN <<>>
    ELSE IF Head(nodes).tag = "p" THEN Head(nodes).kids
    ELSE IF HasP(Head(nodes).kids) THEN FirstPKids(Head(nodes).kids)
    ELSE FirstPKids(Tail(nodes))

\* the tree with the first p in document order emptied of its children
RECURSIVE EmptyFirstP(_)
EmptyFirstP(nodes) ==
    IF nodes = <<>> THEN <<>>
    ELSE IF Head(nodes).tag = "p"
        THEN <<[Head(nodes) EXCEPT !.kids = <<>>]>> \o Tail(nodes)
    ELSE IF HasP(Head(nodes).kids)
        THEN <<[Head(nodes) EXCEPT !.kids = EmptyFirstP(Head(nodes).kids)]>> \o Tail(nodes)
    ELSE <<Head(nodes)>> \o EmptyFirstP(Tail(nodes))

\* the index among the wrapper's child nodes of the first p in document
\* order, 0 when that p is not a child of the wrapper itself
RECURSIVE FirstPChildIndex(_, _)
FirstPChildIndex(nodes, i) ==
    IF i > Len(nodes) THEN 0
    ELSE IF nodes[i].tag = "p" THEN i
    ELSE IF HasP(nodes[i].kids) THEN 0
    ELSE FirstPChildIndex(nodes, i + 1)

RemoveAt(s, i) == SubSeq(s, 1, i - 1) \o SubSeq(s, i + 1, Len(s))

\* Lines 31-37 of renderCompactMarkdown on the wrapper's child nodes:
\* the wrapper afterwards, and whether removeChild threw (NotFoundError:
\* the node to be removed is not a child of this node).
Unwrap(nodes) ==
    IF ElementCount(nodes) = 1 /\ HasP(nodes)
    THEN LET moved == EmptyFirstP(nodes) \o FirstPKids(nodes)
             at == FirstPChildIndex(nodes, 1)
         IN  IF at = 0
             THEN [after |-> moved, threw |-> TRUE]
             ELSE [after |-> RemoveAt(moved, at), threw |-> FALSE]
    ELSE [after |-> nodes, threw |-> FALSE]

\* ------------------------------------------------------------------ renderValue's decisions

\* the guard off by one: depth >= limit
DepthExceededEarly(depth, max) == depth >= max

\* the guard missing
DepthNeverExceeded(depth, max) == FALSE

\* line 118: if (depth > settings.maxRecursiveRenderDepth)
DepthExceeded(depth, max) == depth > max

\* the depth not incremented for the child
ChildDepthSame(depth) == depth

\* lines 148, 162, 177, 192: the depth handed to a child, a fresh value
ChildDepth(depth) == depth + 1

\* the caller's context handed on to the child
ChildContextInherited(ctx) == ctx

\* lines 148, 162, 177, 192: the context handed to a child is the literal "list"
ChildContext(ctx) == "list"

\* line 143: the only use of `context`
ListClass(ctx) ==
    IF ctx = "list" THEN "dataview-result-list-ul" ELSE "dataview-result-list-root-ul"

\* the constructor test inverted
IsForeignInverted(ctor) == ctor # "" /\ ctor = "Object"

\* line 167: field?.constructor?.name && field?.constructor?.name != "Object"
IsForeign(ctor) == ctor # "" /\ ctor # "Object"

\* the emptiness test dropped
IsEmptyNever(n) == FALSE

\* lines 151, 180: field.length == 0, Object.keys(field).length == 0
IsEmpty(n) == Len(Node(n).kids) = 0

\* a leaf render started and not awaited
AwaitsNot == FALSE

\* lines 124, 130, 132 (and 51, 77, 148, ...): every async call is awaited
Awaits == TRUE

\* lines 123-133: the branches that go through renderCompactMarkdown
MarkdownKinds == {"null", "string", "boolean", "number", "link"}
\* lines 125-128, 133-136, 195-197: the branches that append synchronously
TextKinds == {"date", "duration", "html", "function", "other"}
\* line 137: Values.isArray(field) || DataArray.isDataArray(field)
ArrayKinds == {"array", "dataarray"}

\* the markdown handed to renderCompactMarkdown (lines 124, 130, 132)
MarkdownOf(n) == IF Node(n).kind = "null" THEN RenderNullAs ELSE Node(n).text

\* the text appended for a synchronous leaf (lines 126, 128, 134, 136, 196)
LeafText(n) ==
    CASE Node(n).kind = "function" -> <<"<function>">>
      [] Node(n).kind = "other" -> <<"Unrecognized: ", Node(n).text>>
      [] OTHER -> <<Node(n).text>>

\* ------------------------------------------------------------------ calls and events

Frame(fn, node, into, expand, ctx, depth) ==
    [fn |-> fn, node |-> node, into |-> into, expand |-> expand, ctx |-> ctx,
     depth |-> depth, pc |-> "entry", idx |-> 1, col |-> 0, el |-> 0]

\* An entry of the log, made by call f: op is "call" | "ret" (renderValue
\* entered / returned), "text" (appendText), "el" (createEl / createSpan),
\* "html" (appendChild), "md" (renderMarkdown called on wrapper el),
\* "mdDone" (renderCompactMarkdown returned), "throw".
Ev(op, f, into, el, tag, txt, cls) ==
    [op |-> op, into |-> into, el |-> el, tag |-> tag, txt |-> txt, cls |-> cls,
     node |-> f.node, depth |-> f.depth, ctx |-> f.ctx, expand |-> f.expand]

CallEv(f) == Ev("call", f, f.into, 0, "", <<>>, <<>>)
RetEv(f) == Ev("ret", f, f.into, 0, "", <<>>, <<>>)
TextEv(f, into, txt) == Ev("text", f, into, 0, "", txt, <<>>)
ElEv(f, into, el, tag, cls) == Ev("el", f, into, el, tag, <<>>, cls)

\* renderCompactMarkdown on wrapper `span` has returned
MdDoneEv(span) ==
    Ev("mdDone", Frame("renderCompactMarkdown", 0, span, FALSE, "", 0), span, span, "",
       <<>>, <<>>)

NoSub == [span |-> 0, before |-> <<>>, after |-> <<>>, threw |-> FALSE]

Top == stack[Len(stack)]
Running == status = "running" /\ stack # <<>>
InValue(pc) == Running /\ Top.fn = "renderValue" /\ Top.pc = pc
Within == ~DepthExceeded(Top.depth, input.max)

\* the call on top returns to its caller
Pop ==
    /\ stack' = SubSeq(stack, 1, Len(stack) - 1)
    /\ status' = IF Len(stack) = 1 THEN "resolved" ELSE status

SetTop(f) == stack' = [stack EXCEPT ![Len(stack)] = f]
Push(f, g) == stack' = [stack EXCEPT ![Len(stack)] = f] \o <<g>>

\* ------------------------------------------------------------------ renderValue

\* lines 118-121
RenderTruncated ==
    /\ InValue("entry")
    /\ ~Within
    /\ log' = log \o <<CallEv(Top), TextEv(Top, Top.into, <<"...">>), RetEv(Top)>>
    /\ Pop
    /\ UNCHANGED <<input, pending, sub, nextEl, workerVars>>

\* lines 125-128, 133-136, 195-197
RenderLeafText ==
    /\ InValue("entry")
    /\ Within
    /\ Node(Top.node).kind \in TextKinds
    /\ log' = log \o <<CallEv(Top),
                       IF Node(Top.node).kind = "html"
                       THEN Ev("html", Top, Top.into, 0, "", <<Node(Top.node).text>>, <<>>)
                       ELSE TextEv(Top, Top.into, LeafText(Top.node)),
                       RetEv(Top)>>
    /\ Pop
    /\ UNCHANGED <<input, pending, sub, nextEl, workerVars>>

\* lines 123-124, 129-132, with renderCompactMarkdown's lines 28-29:
\* the wrapper span is created and the external renderer is started
RenderLeafMarkdown ==
    /\ InValue("entry")
    /\ Within
    /\ Node(Top.node).kind \in MarkdownKinds
    /\ pending' = pending \cup {[span |-> nextEl, waited |-> 0]}
    /\ nextEl' = nextEl + 1
    /\ IF Awaits
       THEN /\ log' = log \o <<CallEv(Top),
                               ElEv(Top, Top.into, nextEl, "span", <<>>),
                               Ev("md", Top, Top.into, nextEl, "", <<MarkdownOf(Top.node)>>, <<>>)>>
            /\ SetTop([Top EXCEPT !.pc = "await", !.el = nextEl])
            /\ status' = status
       ELSE /\ log' = log \o <<CallEv(Top),
                               ElEv(Top, Top.into, nextEl, "span", <<>>),
                               Ev("md", Top, Top.into, nextEl, "", <<MarkdownOf(Top.node)>>, <<>>),
                               RetEv(Top)>>
            /\ Pop
    /\ UNCHANGED <<input, sub, workerVars>>

\* the awaited renderCompactMarkdown has returned: renderValue returns
RenderValueResume ==
    /\ InValue("await")
    /\ \A t \in pending : t.span # Top.el
    /\ log' = log \o <<RetEv(Top)>>
    /\ sub' = NoSub
    /\ Pop
    /\ UNCHANGED <<input, pending, nextEl, workerVars>>

\* lines 137-145, 150-156
RenderArray ==
    /\ InValue("entry")
    /\ Within
    /\ Node(Top.node).kind \in ArrayKinds
    /\ IF Top.expand
       THEN /\ log' = log \o <<CallEv(Top),
                               ElEv(Top, Top.into, nextEl, "ul",
                                    <<"dataview", "dataview-ul", ListClass(Top.ctx)>>)>>
            /\ SetTop([Top EXCEPT !.pc = "loop", !.el = nextEl])
            /\ nextEl' = nextEl + 1
            /\ status' = status
       ELSE IF IsEmpty(Top.node)
       THEN /\ log' = log \o <<CallEv(Top), TextEv(Top, Top.into, <<"<empty list>">>),
                               RetEv(Top)>>
            /\ Pop
            /\ nextEl' = nextEl
       ELSE /\ log' = log \o <<CallEv(Top),
                               ElEv(Top, Top.into, nextEl, "span",
                                    <<"dataview", "dataview-result-list-span">>)>>
            /\ SetTop([Top EXCEPT !.pc = "loop", !.el = nextEl])
            /\ nextEl' = nextEl + 1
            /\ status' = status
    /\ UNCHANGED <<input, pending, sub, workerVars>>

\* lines 165-173, 179-185
RenderObject ==
    /\ InValue("entry")
    /\ Within
    /\ Node(Top.node).kind = "object"
    /\ IF IsForeign(Node(Top.node).ctor)
       THEN /\ log' = log \o <<CallEv(Top),
                               TextEv(Top, Top.into, <<"<", Node(Top.node).ctor, ">">>),
                               RetEv(Top)>>
            /\ Pop
            /\ nextEl' = nextEl
       ELSE IF Top.expand
       THEN /\ log' = log \o <<CallEv(Top),
                               ElEv(Top, Top.into, nextEl, "ul",
                                    <<"dataview", "dataview-ul", "dataview-result-object-ul">>)>>
            /\ SetTop([Top EXCEPT !.pc = "loop", !.el = nextEl])
            /\ nextEl' = nextEl + 1
            /\ status' = status
       ELSE IF IsEmpty(Top.node)
       THEN /\ log' = log \o <<CallEv(Top), TextEv(Top, Top.into, <<"<empty object>">>),
                               RetEv(Top)>>
            /\ Pop
            /\ nextEl' = nextEl
       ELSE /\ log' = log \o <<CallEv(Top),
                               ElEv(Top, Top.into, nextEl, "span",
                                    <<"dataview", "dataview-result-object-span">>)>>
            /\ SetTop([Top EXCEPT !.pc = "loop", !.el = nextEl])
            /\ nextEl' = nextEl + 1
            /\ status' = status
    /\ UNCHANGED <<input, pending, sub, workerVars>>

\* the recursive call of lines 148, 162, 177, 192 for child number idx
ChildFrame(f, into) ==
    Frame("renderValue", Node(f.node).kids[f.idx], into, f.expand,
          ChildContext(f.ctx), ChildDepth(f.depth))

\* what one loop iteration appends before its recursive call
\* (lines 147, 159-160, 175-176, 188-191)
ChildPrefix(f, fresh) ==
    LET isObj == Node(f.node).kind = "object"
        key == IF isObj THEN <<Node(f.node).keys[f.idx], ": ">> ELSE <<>>
    IN  IF f.expand
        THEN <<ElEv(f, f.el, fresh, "li",
                    IF isObj
                    THEN <<"dataview", "dataview-li", "dataview-result-object-li">>
                    ELSE <<"dataview-result-list-li">>)>>
             \o (IF isObj THEN <<TextEv(f, fresh, key)>> ELSE <<>>)
        ELSE (IF f.idx > 1 THEN <<TextEv(f, f.el, <<", ">>)>> ELSE <<>>)
             \o (IF isObj THEN <<TextEv(f, f.el, key)>> ELSE <<>>)

\* one iteration of the loops at lines 146-149, 158-163, 174-178, 187-193
RenderChild ==
    /\ InValue("loop")
    /\ Top.idx <= Len(Node(Top.node).kids)
    /\ Len(stack) < StackCap
    /\ log' = log \o ChildPrefix(Top, nextEl)
    /\ Push([Top EXCEPT !.idx = Top.idx + 1],
            ChildFrame(Top, IF Top.expand THEN nextEl ELSE Top.el))
    /\ nextEl' = IF Top.expand THEN nextEl + 1 ELSE nextEl
    /\ UNCHANGED <<input, pending, sub, status, workerVars>>

\* the loop is over: renderValue returns
RenderContainerDone ==
    /\ InValue("loop")
    /\ Top.idx > Len(Node(Top.node).kids)
    /\ log' = log \o <<RetEv(Top)>>
    /\ Pop
    /\ UNCHANGED <<input, pending, sub, nextEl, workerVars>>

\* ------------------------------------------------------------------ renderCompactMarkdown

\* time passes while the external renderer works on a leaf
Tick(t) ==
    /\ t \in pending
    /\ t.waited < MaxWait
    /\ pending' = (pending \ {t}) \cup {[t EXCEPT !.waited = t.waited + 1]}
    /\ UNCHANGED <<input, stack, log, sub, status, nextEl, workerVars>>

\* renderMarkdown resolves, leaving `tree` in the wrapper, and
\* renderCompactMarkdown runs its lines 31-37 and returns or throws; an
\* error thrown into an awaiting chain of calls rejects all of them
RenderMarkdownResolves(t, tree) ==
    /\ t \in pending
    /\ tree \in RendererOutputs
    /\ pending' = pending \ {t}
    /\ sub' = [span |-> t.span, before |-> tree,
               after |-> Unwrap(tree).after, threw |-> Unwrap(tree).threw]
    /\ LET awaited == Running /\ Top.pc = "await" /\ Top.el = t.span
           who == Frame("renderCompactMarkdown", 0, t.span, FALSE, "", 0)
       IN  IF Unwrap(tree).threw
           THEN /\ log' = log \o <<Ev("throw", who, t.span, t.span, "", <<"NotFoundError">>, <<>>)>>
                /\ stack' = IF awaited THEN <<>> ELSE stack
                /\ status' = IF awaited THEN "rejected" ELSE status
           ELSE /\ log' = log \o <<MdDoneEv(t.span)>>
                /\ UNCHANGED <<stack, status>>
    /\ UNCHANGED <<input, nextEl, workerVars>>

\* ------------------------------------------------------------------ renderList

InList(pc) == Running /\ Top.fn = "renderList" /\ Top.pc = pc

\* line 48
RenderListEnter ==
    /\ InList("entry")
    /\ log' = log \o <<ElEv(Top, Top.into, nextEl, "ul", <<"dataview", "list-view-ul">>)>>
    /\ SetTop([Top EXCEPT !.pc = "loop", !.el = nextEl])
    /\ nextEl' = nextEl + 1
    /\ UNCHANGED <<input, pending, sub, status, workerVars>>

\* lines 49-52: let li = ...; await renderValue(elem, li, ..., true, "list")
RenderListItem ==
    /\ InList("loop")
    /\ Top.idx <= Len(Node(Top.node).kids)
    /\ Len(stack) < StackCap
    /\ log' = log \o <<ElEv(Top, Top.el, nextEl, "li", <<>>)>>
    /\ Push([Top EXCEPT !.idx = Top.idx + 1],
            Frame("renderValue", Node(Top.node).kids[Top.idx], nextEl, TRUE, "list", 0))
    /\ nextEl' = nextEl + 1
    /\ UNCHANGED <<input, pending, sub, status, workerVars>>

RenderListDone ==
    /\ InList("loop")
    /\ Top.idx > Len(Node(Top.node).kids)
    /\ Pop
    /\ UNCHANGED <<input, log, pending, sub, nextEl, workerVars>>

\* ------------------------------------------------------------------ renderTable

InTable(pc) == Running /\ Top.fn = "renderTable" /\ Top.pc = pc

\* the `headers` argument
Headers == <<"File", "Value">>

\* lines 64-72: table, thead, header row, one th per header, tbody
RenderTableEnter ==
    /\ InTable("entry")
    /\ log' = log \o <<ElEv(Top, Top.into, nextEl, "table", <<"dataview", "table-view-table">>),
                       ElEv(Top, nextEl, nextEl + 1, "thead", <<"table-view-thead">>),
                       ElEv(Top, nextEl + 1, nextEl + 2, "tr", <<"table-view-tr-header">>)>>
                  \o [i \in 1..Len(Headers) |->
                        Ev("el", Top, nextEl + 2, nextEl + 2 + i, "th", <<Headers[i]>>,
                           <<"table-view-th">>)]
                  \o <<ElEv(Top, nextEl, nextEl + 3 + Len(Headers), "tbody",
                            <<"table-view-tbody">>)>>
    /\ SetTop([Top EXCEPT !.pc = "loop", !.into = nextEl + 3 + Len(Headers)])
    /\ nextEl' = nextEl + 4 + Len(Headers)
    /\ UNCHANGED <<input, pending, sub, status, workerVars>>

Rows(f) == Node(f.node).kids
Row(f) == Node(Rows(f)[f.idx]).kids

\* line 74: a new row
RenderTableRow ==
    /\ InTable("loop")
    /\ Top.idx <= Len(Rows(Top))
    /\ Top.col = 0
    /\ log' = log \o <<ElEv(Top, Top.into, nextEl, "tr", <<>>)>>
    /\ SetTop([Top EXCEPT !.col = 1, !.el = nextEl])
    /\ nextEl' = nextEl + 1
    /\ UNCHANGED <<input, pending, sub, status, workerVars>>

\* lines 75-78: let td = ...; await renderValue(value, td, ..., true)
RenderTableCell ==
    /\ InTable("loop")
    /\ Top.idx <= Len(Rows(Top))
    /\ Top.col >= 1
    /\ Top.col <= Len(Row(Top))
    /\ Len(stack) < StackCap
    /\ log' = log \o <<ElEv(Top, Top.el, nextEl, "td", <<>>)>>
    /\ Push([Top EXCEPT !.col = Top.col + 1],
            Frame("renderValue", Row(Top)[Top.col], nextEl, TRUE, "root", 0))
    /\ nextEl' = nextEl + 1
    /\ UNCHANGED <<input, pending, sub, status, workerVars>>

\* the inner loop is over: on to the next row
RenderTableRowDone ==
    /\ InTable("loop")
    /\ Top.idx <= Len(Rows(Top))
    /\ Top.col > Len(Row(Top))
    /\ SetTop([Top EXCEPT !.idx = Top.idx + 1, !.col = 0])
    /\ UNCHANGED <<input, log, pending, sub, status, nextEl, workerVars>>

RenderTableDone ==
    /\ InTable("loop")
    /\ Top.idx > Len(Rows(Top))
    /\ Pop
    /\ UNCHANGED <<input, log, pending, sub, nextEl, workerVars>>

\* ------------------------------------------------------------------ a render

Contexts == {"root", "list"}

\* values renderList can be given: native arrays
ListRoots == {n \in Nodes : Node(n).kind = "array"}
\* values renderTable can be given: native arrays of native arrays
TableRoots ==
    {n \in ListRoots :
        \A i \in 1..Len(Node(n).kids) : Node(Node(n).kids[i]).kind = "array"}

Inputs ==
    [entry : {"renderValue"}, root : Nodes, expand : BOOLEAN, ctx : Contexts,
     max : 0..MaxDepth]
    \cup [entry : {"renderList"}, root : ListRoots, expand : {TRUE}, ctx : {"list"},
          max : 0..MaxDepth]
    \cup [entry : {"renderTable"}, root : TableRoots, expand : {TRUE}, ctx : {"root"},
          max : 0..MaxDepth]

RenderInit ==
    /\ input \in Inputs
    /\ stack = <<Frame(input.entry, input.root, 0, input.expand, input.ctx, 0)>>
    /\ log = <<>>
    /\ pending = {}
    /\ sub = NoSub
    /\ status = "running"
    /\ nextEl = 1

RenderNext ==
    \/ RenderTruncated
    \/ RenderLeafText
    \/ RenderLeafMarkdown
    \/ RenderValueResume
    \/ RenderArray
    \/ RenderObject
    \/ RenderChild
    \/ RenderContainerDone
    \/ \E t \in pending : Tick(t)
    \/ \E t \in pending, tree \in RendererOutputs : RenderMarkdownResolves(t, tree)
    \/ RenderListEnter
    \/ RenderListItem
    \/ RenderListDone
    \/ RenderTableEnter
    \/ RenderTableRow
    \/ RenderTableCell
    \/ RenderTableRowDone
    \/ RenderTableDone

\* ------------------------------------------------------------------ the import worker

Workers == {"w1", "w2"}
Paths == {"x", "y"}
Contents == {"c1", "c2"}
None == [none |-> TRUE]

\* runImport(path, contents, metadata) when it returns: a function of its arguments
RunImport(path, contents, metadata) ==
    [parsed |-> contents, file |-> path, meta |-> metadata]

\* Transferable.transferable(result)
Transferable(v) == [transfer |-> v]

\* the path of the first job ever seen, instead of this message's
ResultPathStale(evt) == jobs[1].path

\* line 7: path: evt.data.path
ResultPath(evt) == evt.path

\* the orchestrator hands worker w a job for a document
Submit(w, path, contents) ==
    /\ Len(jobs) < MaxJobs
    /\ jobs' = Append(jobs, [path |-> path, contents |-> contents, worker |-> w])
    /\ queue' = [queue EXCEPT ![w] =
                    Append(@, [job |-> Len(jobs) + 1, path |-> path,
                               contents |-> contents, metadata |-> "meta"])]
    /\ UNCHANGED <<posted, uncaught, index, renderVars>>

\* lines 5-8: the handler of one job message.  runImport either returns, and
\* the result is posted, or raises: nothing catches the error, the async
\* handler's promise is rejected and line 7 is never reached.
OnMessage(w) ==
    /\ queue[w] # <<>>
    /\ queue' = [queue EXCEPT ![w] = Tail(@)]
    /\ LET evt == Head(queue[w])
       IN  \/ /\ posted' = Append(posted,
                    [path |-> ResultPath(evt),
                     result |-> Transferable(RunImport(evt.path, evt.contents, evt.metadata)),
                     job |-> evt.job, worker |-> w])
              /\ UNCHANGED uncaught
           \/ /\ uncaught' = uncaught \cup {evt.job}
              /\ UNCHANGED posted
    /\ UNCHANGED <<jobs, index, renderVars>>

\* the orchestrator takes the next result message and files it under its path
OrchestratorReceive ==
    /\ index.read < Len(posted)
    /\ LET m == posted[index.read + 1]
       IN  index' = [read |-> index.read + 1,
                     byPath |-> [index.byPath EXCEPT ![m.path] = m.result]]
    /\ UNCHANGED <<queue, posted, uncaught, jobs, renderVars>>

WorkerInit ==
    /\ queue = [w \in Workers |-> <<>>]
    /\ posted = <<>>
    /\ uncaught = {}
    /\ jobs = <<>>
    /\ index = [read |-> 0, byPath |-> [p \in Paths |-> None]]

WorkerNext ==
    \/ \E w \in Workers, path \in Paths, contents \in Contents : Submit(w, path, contents)
    \/ \E w \in Workers : OnMessage(w)
    \/ OrchestratorReceive

\* no render is going on
RenderIdle ==
    /\ input = [entry |-> "renderValue", root |-> 0, expand |-> FALSE, ctx |-> "root",
                max |-> 0]
    /\ stack = <<>>
    /\ log = <<>>
    /\ pending = {}
    /\ sub = NoSub
    /\ status = "resolved"
    /\ nextEl = 1

\* ------------------------------------------------------------------ specifications

\* one render, from the top-level call to its settling
Init == RenderInit /\ WorkerInit
Next == RenderNext
Spec == Init /\ [][Next]_vars

\* the event loop runs every continuation that is ready, and every leaf
\* markdown render eventually returns
FairSpec == Spec /\ WF_vars(Next)

\* the workers and the orchestrator
WorkerStart == RenderIdle /\ WorkerInit
WorkerSpec == WorkerStart /\ [][WorkerNext]_vars

\* ------------------------------------------------------------------ renderValue as a function

\* Everything a renderValue call f and its descendants log when no leaf
\* render throws, with `fresh` the next free element id: [evs, fresh].
RECURSIVE RenderEvents(_, _)
RECURSIVE RenderKids(_, _, _)

RenderEvents(f, fresh) ==
    LET n == Node(f.node)
        done(evs) == [evs |-> <<CallEv(f)>> \o evs \o <<RetEv(f)>>, fresh |-> fresh]
        loop(tag, cls) ==
            LET r == RenderKids([f EXCEPT !.el = fresh], 1, fresh + 1)
            IN  [evs |-> <<CallEv(f), ElEv(f, f.into, fresh, tag, cls)>> \o r.evs
                         \o <<RetEv(f)>>,
                 fresh |-> r.fresh]
    IN  IF DepthExceeded(f.depth, input.max)
            THEN done(<<TextEv(f, f.into, <<"...">>)>>)
        ELSE IF n.kind \in MarkdownKinds
            THEN [evs |-> <<CallEv(f), ElEv(f, f.into, fresh, "span", <<>>),
                            Ev("md", f, f.into, fresh, "", <<MarkdownOf(f.node)>>, <<>>),
                            MdDoneEv(fresh), RetEv(f)>>,
                  fresh |-> fresh + 1]
        ELSE IF n.kind = "html"
            THEN done(<<Ev("html", f, f.into, 0, "", <<n.text>>, <<>>)>>)
        ELSE IF n.kind \in TextKinds
            THEN done(<<TextEv(f, f.into, LeafText(f.node))>>)
        ELSE IF n.kind \in ArrayKinds
            THEN IF f.expand
                    THEN loop("ul", <<"dataview", "dataview-ul", ListClass(f.ctx)>>)
                 ELSE IF IsEmpty(f.node)
                    THEN done(<<TextEv(f, f.into, <<"<empty list>">>)>>)
                 ELSE loop("span", <<"dataview", "dataview-result-list-span">>)
        ELSE IF IsForeign(n.ctor)
            THEN done(<<TextEv(f, f.into, <<"<", n.ctor, ">">>)>>)
        ELSE IF f.expand
            THEN loop("ul", <<"dataview", "dataview-ul", "dataview-result-object-ul">>)
        ELSE IF IsEmpty(f.node)
            THEN done(<<TextEv(f, f.into, <<"<empty object>">>)>>)
        ELSE loop("span", <<"dataview", "dataview-result-object-span">>)

\* the loop of call f from child number i on
RenderKids(f, i, fresh) ==
    IF i > Len(Node(f.node).kids) THEN [evs |-> <<>>, fresh |-> fresh]
    ELSE LET g == [f EXCEPT !.idx = i]
             c == RenderEvents(ChildFrame(g, IF f.expand THEN fresh ELSE f.el),
                               IF f.expand THEN fresh + 1 ELSE fresh)
             rest == RenderKids(f, i + 1, c.fresh)
         IN  [evs |-> ChildPrefix(g, fresh) \o c.evs \o rest.evs, fresh |-> rest.fresh]

\* ------------------------------------------------------------------ reading the log

LogIdx == 1..Len(log)
IsCall(i) == log[i].op = "call"
IsPlaceholder(i) == log[i].op = "text" /\ log[i].txt = <<"...">>
Containers == ArrayKinds \cup {"object"}

\* the call logged at i appended exactly one text, txt, to its container and returned
OnlyText(i, txt) ==
    /\ i + 2 <= Len(log)
    /\ log[i + 1].op = "text" /\ log[i + 1].txt = txt /\ log[i + 1].into = log[i].into
    /\ log[i + 2].op = "ret" /\ log[i + 2].into = log[i].into

\* the call logged at i created one element with this tag, left it empty and returned
OnlyEmptyEl(i, tag) ==
    /\ i + 1 <= Len(log)
    /\ log[i + 1].op = "el" /\ log[i + 1].tag = tag /\ log[i + 1].into = log[i].into
    /\ i + 2 <= Len(log) => (log[i + 2].op = "ret" /\ log[i + 2].into = log[i].into)

\* a top-level renderValue on the array nested to depth D = input.root, limit k < D
NestedBeyondLimit ==
    /\ input.entry = "renderValue"
    /\ input.root \in NestNodes
    /\ input.max < input.root

\* ------------------------------------------------------------------ C1

\* C1 as stated: rendering an array nested to depth D with limit k < D, the
\* placeholder "..." is emitted by the call whose depth argument is k, and no
\* call with a larger depth argument is made.
C1_PlaceholderAtLimit ==
    NestedBeyondLimit =>
        \A i \in LogIdx :
            /\ IsCall(i) => log[i].depth <= input.max
            /\ IsPlaceholder(i) => log[i].depth = input.max

\* C1 amended: the arrays at depths 0..k are rendered; the placeholder is
\* emitted by the call whose depth argument is k + 1, exactly once when the
\* render resolves, and no call with a depth argument above k + 1 is made.
C1_PlaceholderPastLimit ==
    NestedBeyondLimit =>
        /\ \A i \in LogIdx :
            /\ IsCall(i) => log[i].depth <= input.max + 1
            /\ IsPlaceholder(i) => log[i].depth = input.max + 1
            /\ (IsCall(i) /\ log[i].depth <= input.max) =>
                    (i + 1 <= Len(log) /\ log[i + 1].op = "el")
        /\ status = "resolved" =>
            Cardinality({i \in LogIdx : IsPlaceholder(i)}) = 1

\* a resolved render of the array nested 4 deep under limit 1: truncated
C1_Witness ==
    /\ NestedBeyondLimit
    /\ input.root >= input.max + 2
    /\ input.max >= 1
    /\ status = "resolved"
    /\ \E i \in LogIdx : IsPlaceholder(i)

\* ------------------------------------------------------------------ C9

\* C9: the depth argument of every renderValue call in progress equals the
\* number of array/object renderValue calls enclosing it (so renderList and
\* renderTable start every element at depth 0, and siblings share a depth);
\* no call has depth above the limit + 1; a call above the limit appends
\* only "..." and returns.
C9_DepthCountsEnclosingContainers ==
    /\ \A i \in 1..Len(stack) :
          stack[i].fn = "renderValue" =>
            /\ stack[i].depth =
                  Cardinality({j \in 1..(i - 1) : stack[j].fn = "renderValue"})
            /\ \A j \in 1..(i - 1) :
                  stack[j].fn = "renderValue" => Node(stack[j].node).kind \in Containers
    /\ \A i \in LogIdx :
          IsCall(i) =>
            /\ log[i].depth <= input.max + 1
            /\ log[i].depth > input.max => OnlyText(i, <<"...">>)

\* the second element of a list, an object, is rendering the second child of
\* its second field, two containers down
C9_Witness ==
    /\ input.entry = "renderList"
    /\ Len(stack) >= 4
    /\ stack[1].idx > 2
    /\ stack[2].idx > 2
    /\ stack[3].idx > 2
    /\ stack[4].depth = 2

\* ------------------------------------------------------------------ C3

PlainEmptyObject(n) ==
    Node(n).kind = "object" /\ Node(n).ctor = "Object" /\ Len(Node(n).keys) = 0
EmptyArray(n) == Node(n).kind \in ArrayKinds /\ Len(Node(n).kids) = 0

\* C3 as stated: within the limit, an empty array in expand mode appends only
\* the text "<empty list>", and an empty plain object, in expand mode as well
\* as inline mode, appends only the text "<empty object>".
C3_EmptyPlaceholders ==
    \A i \in LogIdx :
        (IsCall(i) /\ log[i].depth <= input.max) =>
            /\ (EmptyArray(log[i].node) /\ log[i].expand) => OnlyText(i, <<"<empty list>">>)
            /\ PlainEmptyObject(log[i].node) => OnlyText(i, <<"<empty object>">>)

\* C3 amended: the placeholders belong to inline mode (expandList = false);
\* in expand mode an empty array and an empty plain object each get an empty
\* ul element and no text.
C3_EmptyPlaceholdersInline ==
    \A i \in LogIdx :
        (IsCall(i) /\ log[i].depth <= input.max) =>
            /\ EmptyArray(log[i].node) =>
                  IF log[i].expand THEN OnlyEmptyEl(i, "ul")
                  ELSE OnlyText(i, <<"<empty list>">>)
            /\ PlainEmptyObject(log[i].node) =>
                  IF log[i].expand THEN OnlyEmptyEl(i, "ul")
                  ELSE OnlyText(i, <<"<empty object>">>)

\* both empty containers have been rendered inline, nested in an object
C3_Witness ==
    /\ ~input.expand
    /\ \E i \in LogIdx : IsCall(i) /\ EmptyArray(log[i].node) /\ log[i].depth <= input.max
    /\ \E i \in LogIdx : IsCall(i) /\ PlainEmptyObject(log[i].node) /\ log[i].depth <= input.max

\* ------------------------------------------------------------------ C7

\* C7: a call that reaches the Object branch with a constructor name that is
\* non-empty and not "Object" appends exactly "<" name ">" and returns: no
\* recursive call, no leaf render, in expand mode as well as inline mode.
C7_ForeignObjectNotTraversed ==
    \A i \in LogIdx :
        ( /\ IsCall(i)
          /\ log[i].depth <= input.max
          /\ Node(log[i].node).kind = "object"
          /\ Node(log[i].node).ctor \notin {"", "Object"} ) =>
            OnlyText(i, <<"<", Node(log[i].node).ctor, ">">>)

\* a class instance with fields was reached inside a plain object, expand mode
C7_Witness ==
    \E i \in LogIdx :
        /\ IsCall(i)
        /\ log[i].expand
        /\ log[i].depth = 1
        /\ log[i].depth <= input.max
        /\ Node(log[i].node).ctor = "Foo"
        /\ Len(Node(log[i].node).kids) > 0

\* ------------------------------------------------------------------ C4

\* the nodes renderValue was called on at depth 0, in call order
RECURSIVE TopLevelCalls(_)
TopLevelCalls(evs) ==
    IF evs = <<>> THEN <<>>
    ELSE (IF Head(evs).op = "call" /\ Head(evs).depth = 0 THEN <<Head(evs).node>> ELSE <<>>)
         \o TopLevelCalls(Tail(evs))

\* the cells of a table, row after row
RECURSIVE Cells(_)
Cells(rows) == IF rows = <<>> THEN <<>> ELSE Node(Head(rows)).kids \o Cells(Tail(rows))

\* C4: whatever the suspension of each leaf render, (b) when the render of
\* an element starts, every leaf render started before it (the earlier
\* siblings and their descendants) has returned and every earlier call at
\* the same depth or deeper has returned, and (a) a resolved render
\* has logged its appends and calls in depth-first, left-to-right input
\* order: exactly the sequence the recursion defines, and for renderList and
\* renderTable the elements and cells in input order.
C4_SiblingsInOrder ==
    /\ \A p \in LogIdx :
          IsCall(p) =>
            /\ \A q \in 1..(p - 1) :
                  log[q].op = "md" =>
                    \E r \in (q + 1)..(p - 1) :
                        log[r].op = "mdDone" /\ log[r].el = log[q].el
            /\ Cardinality({q \in 1..(p - 1) :
                              log[q].op = "call" /\ log[q].depth >= log[p].depth})
                = Cardinality({q \in 1..(p - 1) :
                                log[q].op = "ret" /\ log[q].depth >= log[p].depth})
    /\ (status = "resolved" /\ input.entry = "renderValue") =>
          log = RenderEvents(Frame("renderValue", input.root, 0, input.expand,
                                   input.ctx, 0), 1).evs
    /\ (status = "resolved" /\ input.entry = "renderList") =>
          TopLevelCalls(log) = Node(input.root).kids
    /\ (status = "resolved" /\ input.entry = "renderTable") =>
          TopLevelCalls(log) = Cells(Node(input.root).kids)

\* [a, b, c]: a's leaf render has returned, b's has been suspended for a while
C4_Witness ==
    /\ input.root = 21
    /\ \E i \in LogIdx : log[i].op = "mdDone"
    /\ \E t \in pending : t.waited = MaxWait
    /\ Len(stack) = 2
    /\ stack[1].idx = 3

\* ------------------------------------------------------------------ C10

OtherContext(ctx) == IF ctx = "root" THEN "list" ELSE "root"

\* an event without what the top-level call's context may show in it: the
\* context argument itself, and the class of a top-level array's ul
Erase(e) ==
    [e EXCEPT !.ctx = IF e.depth = 0 THEN "" ELSE @,
              !.cls = IF /\ e.depth = 0 /\ e.op = "el" /\ e.tag = "ul"
                         /\ Node(e.node).kind \in ArrayKinds
                      THEN <<>> ELSE @]

EraseAll(evs) == [i \in 1..Len(evs) |-> Erase(evs[i])]

\* C10: a resolved renderValue has logged, up to the class of a top-level
\* expanded array's ul, what the same call with the other context logs; and
\* every recursive call is made with context "list".
C10_ContextOnlySelectsClass ==
    /\ (status = "resolved" /\ input.entry = "renderValue") =>
          EraseAll(log) =
            EraseAll(RenderEvents(Frame("renderValue", input.root, 0, input.expand,
                                        OtherContext(input.ctx), 0), 1).evs)
    /\ \A i \in LogIdx : (IsCall(i) /\ log[i].depth >= 1) => log[i].ctx = "list"

\* a resolved render in context "root" of an expanded array holding arrays
C10_Witness ==
    /\ status = "resolved"
    /\ input.entry = "renderValue"
    /\ input.ctx = "root"
    /\ input.expand
    /\ input.root = 22
    /\ input.max >= 1
    /\ \E i \in LogIdx :
          /\ log[i].op = "el" /\ log[i].depth = 1
          /\ log[i].cls = <<"dataview", "dataview-ul", "dataview-result-list-ul">>

\* ------------------------------------------------------------------ C2

\* the most children a container has
Width == CHOOSE w \in 0..Cardinality(Nodes) :
            /\ \A n \in Nodes : Len(Node(n).kids) <= w
            /\ \E n \in Nodes : Len(Node(n).kids) = w

\* 1 + Width + ... + Width^d
RECURSIVE Geo(_)
Geo(d) == IF d = 0 THEN 1 ELSE 1 + Width * Geo(d - 1)

NumCalls == Cardinality({i \in LogIdx : IsCall(i)})

\* C2: every top-level renderValue settles, on cyclic values too, and the
\* calls it makes are bounded by the depth limit alone: at most
\* 1 + W + ... + W^(limit+1) calls for containers of at most W children, on
\* a chain of calls never longer than limit + 2.
C2_RenderSettles ==
    /\ [](input.entry = "renderValue" =>
            /\ NumCalls <= Geo(input.max + 1)
            /\ Len(stack) <= input.max + 2)
    /\ <>(status \in {"resolved", "rejected"})

\* an array that contains itself has been rendered, under the largest limit
C2_Witness ==
    /\ input.root = 23
    /\ input.max = MaxDepth
    /\ status = "resolved"
    /\ NumCalls >= 2 * (MaxDepth + 1)

\* ------------------------------------------------------------------ C8

\* the wrapper has exactly one child element, and it is a paragraph
SingleWrappingP(nodes) ==
    /\ ElementCount(nodes) = 1
    /\ \E i \in 1..Len(nodes) : nodes[i].tag = "p"

\* the wrapper with its paragraph's children moved to its end, in order, and
\* the paragraph removed
Unwrapped(nodes) ==
    LET at == CHOOSE i \in 1..Len(nodes) : nodes[i].tag = "p"
    IN  RemoveAt(nodes, at) \o nodes[at].kids

\* C8: after renderCompactMarkdown, a wrapper whose only child element is a
\* paragraph holds the paragraph's children in place of it; every other
\* wrapper is as the renderer left it; and nothing is thrown.
C8_UnwrapOnlyWrappingParagraph ==
    sub # NoSub =>
        /\ ~sub.threw
        /\ sub.after = IF SingleWrappingP(sub.before) THEN Unwrapped(sub.before)
                       ELSE sub.before

\* ------------------------------------------------------------------ C5

\* job j has been handled: it was submitted and is in no queue any more
Handled(j) ==
    /\ j \in 1..Len(jobs)
    /\ \A w \in Workers : \A i \in 1..Len(queue[w]) : queue[w][i].job # j

PostedFor(j) == {i \in 1..Len(posted) : posted[i].job = j}

\* C5: whatever runImport does, a handled job has a result message for its
\* path, and no error has escaped the message handler.
C5_EveryJobAnswered ==
    \A j \in 1..Len(jobs) :
        Handled(j) =>
            /\ \E i \in PostedFor(j) : posted[i].path = jobs[j].path
            /\ j \notin uncaught

\* ------------------------------------------------------------------ C6

\* C6: whatever the workers' completion order, every result message carries
\* the path of the job whose contents produced its result, no job has more
\* than one result message, and what the orchestrator files under a path is
\* the result of a job for that path.
C6_ResultsCorrelateByPath ==
    /\ \A i \in 1..Len(posted) :
          LET j == jobs[posted[i].job]
          IN  /\ posted[i].path = j.path
              /\ posted[i].result = Transferable(RunImport(j.path, j.contents, "meta"))
    /\ \A j \in 1..Len(jobs) : Cardinality(PostedFor(j)) <= 1
    /\ \A p \in Paths :
          index.byPath[p] # None =>
            \E j \in 1..Len(jobs) :
                /\ jobs[j].path = p
                /\ index.byPath[p] = Transferable(RunImport(p, jobs[j].contents, "meta"))

\* x was submitted before y, to another worker; y's result was posted first;
\* the orchestrator has filed both
C6_Witness ==
    /\ Len(jobs) >= 2
    /\ jobs[1].path = "x" /\ jobs[2].path = "y"
    /\ jobs[1].worker # jobs[2].worker
    /\ Len(posted) >= 2
    /\ posted[1].job = 2 /\ posted[2].job = 1
    /\ index.read >= 2

====
